---- MODULE Spec2Model ----
(***************************************************************************)
(* Model of bob's python/setup.py (package-description query and flag      *)
(* classification, toolbox variables, linker probing inside build_ext,     *)
(* extension set-up) and of python/torch/filters.py (filter discovery).    *)
(*                                                                         *)
(* Text is a sequence of one-character strings; the raw output of a child  *)
(* process is a sequence of byte values (integers).                        *)
(***************************************************************************)
EXTENDS Integers, Sequences, FiniteSets, TLC

VARIABLES
  pc,               \* position of the modelled run
  py3,              \* TRUE when bytes and str are distinct types (Python 3)
  proc_output,      \* bytes captured from the provider (proc.communicate()[0])
  proc_returncode,  \* exit status of the provider
  pk_result,        \* what pkgconfig() produced
  var_libdir,       \* the provider's answer to --variable=libdir
  var_includedir,   \* the provider's answer to --variable=includedir
  BOB,              \* what bob_variables() produced
  linker_so,        \* self.compiler.linker_so
  linker_is_smart,  \* build_ext.linker_is_smart as seen through self
  dll_libraries,    \* self.compiler.dll_libraries
  tmpfiles,         \* temporary files of the probe that exist on disk
  created,          \* number of tempfile.mkstemp() calls so far
  probes,           \* number of linker processes launched by the probe
  probe_cmd,        \* cmd of the latest probe
  builds,           \* number of hand-offs to build_ext_base.build_extension
  handed_so,        \* linker_so as it was at the latest hand-off
  linker_so0,       \* linker_so before the first build_extension call
  DESTDIR,          \* os.environ.get('DESTDIR', '')
  fs,               \* the paths that exist on the filesystem
  platform,         \* platform.system()
  ext_name,         \* first argument of setup_extension
  pc_dict,          \* the local pc of setup_extension
  ext_result,       \* what setup_extension() produced
  scope,            \* the bindings of the module filters.py (__locals__copy)
  todo,             \* the keys the discovery loop has not visited yet
  FILTERS           \* the list FILTERS

procvars == <<py3, proc_output, proc_returncode>>
pkgvars == <<pk_result>>
bobvars == <<var_libdir, var_includedir, BOB>>
linkvars == <<linker_so, linker_is_smart, dll_libraries, tmpfiles, created,
              probes, probe_cmd, builds, handed_so, linker_so0>>
extvars == <<DESTDIR, fs, platform, ext_name, pc_dict, ext_result>>
filtervars == <<scope, todo, FILTERS>>

vars == <<pc, procvars, pkgvars, bobvars, linkvars, extvars, filtervars>>

\* ------------------------------------------------------------------ bounds

MaxOutLen == 5
MaxVerLen == 3
MaxLinkerLen == 2
MaxBuilds == 3
MaxTokens == 3
MaxNames == 3

\* ------------------------------------------------------------------ text

\* The character a byte value stands for (ASCII). Byte 255 occurs in no UTF-8
\* text; it is kept raw when the string is never decoded (Python 2).
chr(b) ==
  CASE b = 32 -> " "
    [] b = 10 -> "\n"
    [] b = 45 -> "-"
    [] b = 46 -> "."
    [] b = 47 -> "/"
    [] b = 49 -> "1"
    [] b = 73 -> "I"
    [] b = 76 -> "L"
    [] b = 79 -> "O"
    [] b = 97 -> "a"
    [] b = 98 -> "b"
    [] b = 105 -> "i"
    [] b = 108 -> "l"
    [] b = 115 -> "s"
    [] b = 117 -> "u"
    [] b = 120 -> "x"
    [] OTHER -> "\\xff"

ord(c) == CHOOSE b \in {32, 10, 45, 46, 47, 49, 73, 76, 79, 97, 98, 105, 108, 115, 117, 120} : chr(b) = c

encode(text) == [i \in 1..Len(text) |-> ord(text[i])]

Whitespace == {" ", "\t", "\n", "\r"}
isspace(c) == c \in Whitespace

\* bytes.decode('utf8'): raises on a byte sequence that is not UTF-8.
decodable(bytes) == \A i \in 1..Len(bytes) : bytes[i] < 128

\* The str the code goes on with: decoded under Python 3 (needs decodable),
\* the byte string itself under Python 2.
astext(bytes) == [i \in 1..Len(bytes) |-> chr(bytes[i])]

\* isinstance(output, bytes) and not isinstance(output, str)
needs_decode(p3) == p3

RECURSIVE split_from(_, _, _)
split_from(s, i, cur) ==
  IF i > Len(s)
    THEN (IF cur = <<>> THEN <<>> ELSE <<cur>>)
    ELSE IF isspace(s[i])
      THEN (IF cur = <<>> THEN <<>> ELSE <<cur>>) \o split_from(s, i + 1, <<>>)
      ELSE split_from(s, i + 1, Append(cur, s[i]))

\* str.split(): the maximal runs of non-whitespace, in order.
split(s) == split_from(s, 1, <<>>)

RECURSIVE lstrip(_, _)
lstrip(s, chars) ==
  IF s # <<>> /\ Head(s) \in chars THEN lstrip(Tail(s), chars) ELSE s

RECURSIVE rstrip(_, _)
rstrip(s, chars) ==
  IF s # <<>> /\ s[Len(s)] \in chars
    THEN rstrip(SubSeq(s, 1, Len(s) - 1), chars)
    ELSE s

\* str.strip(chars)
strip(s, chars) == lstrip(rstrip(s, chars), chars)

\* bytes.strip(): whitespace bytes removed at both ends.
WhitespaceBytes == {9, 10, 13, 32}

\* s[:n] and s[n:]
prefix(s, n) == SubSeq(s, 1, IF Len(s) < n THEN Len(s) ELSE n)
suffix(s, n) == SubSeq(s, n + 1, Len(s))

\* ------------------------------------------------------------------ pkgconfig

RECURSIVE uniq_loop(_, _, _)
uniq_loop(seq, seen, result) ==
  IF seq = <<>> THEN result
  ELSE IF Head(seq) \in seen
    THEN uniq_loop(Tail(seq), seen, result)
    ELSE uniq_loop(Tail(seq), seen \cup {Head(seq)}, Append(result, Head(seq)))

uniq_keepall(seq) == seq

\* pkgconfig.uniq with the default idfun: order-preserving removal of repeats.
uniq(seq) == uniq_loop(seq, {}, <<>>)

flag_map ==
  (<<"-", "I">> :> "include_dirs") @@
  (<<"-", "L">> :> "library_dirs") @@
  (<<"-", "l">> :> "libraries")

EmptyDict == [k \in {} |-> <<>>]

\* kw.setdefault(key, []).append(value)
setdefault_append(kw, key, value) ==
  IF key \in DOMAIN kw
    THEN [kw EXCEPT ![key] = Append(@, value)]
    ELSE [k \in DOMAIN kw \cup {key} |-> IF k = key THEN <<value>> ELSE kw[k]]

\* dict.get(key, [])
get(kw, key) == IF key \in DOMAIN kw THEN kw[key] ELSE <<>>

\* The bucket a token goes to.
bucket_of(token) ==
  IF prefix(token, 2) \in DOMAIN flag_map
    THEN flag_map[prefix(token, 2)]
    ELSE "extra_compile_args"

\* The value a token contributes to its bucket.
value_of(token) ==
  IF prefix(token, 2) \in DOMAIN flag_map THEN suffix(token, 2) ELSE token

RECURSIVE classify(_, _)
classify(tokens, kw) ==
  IF tokens = <<>> THEN kw
  ELSE classify(Tail(tokens),
                setdefault_append(kw, bucket_of(Head(tokens)), value_of(Head(tokens))))

failed_always(returncode) == FALSE

\* proc.returncode != 0
failed(returncode) == returncode # 0

Raise(exc, args) == [kind |-> "raise", exc |-> exc, args |-> args]
Return(value) == [kind |-> "return", type |-> "dict", value |-> value]
NoResult == [kind |-> "pending"]

\* pkgconfig(package) on the captured output and exit status of the provider.
pkgconfig(output, returncode, p3) ==
  IF needs_decode(p3) /\ ~decodable(output)
    THEN Raise("UnicodeDecodeError", <<>>)
  ELSE IF failed(returncode) THEN Return(EmptyDict)
  ELSE LET kw == classify(split(astext(output)), EmptyDict)
       IN  Return([k \in DOMAIN kw |-> uniq(kw[k])])

\* ------------------------------------------------------------------ inputs

RECURSIVE SeqsUpTo(_, _)
SeqsUpTo(S, n) ==
  IF n = 0 THEN {<<>>}
  ELSE LET shorter == SeqsUpTo(S, n - 1)
       IN  shorter \cup {Append(s, x) : s \in {t \in shorter : Len(t) = n - 1}, x \in S}

PkgBytes == {45, 73, 76, 108, 32, 255}

ExitStatuses == {0, 1}

\* ------------------------------------------------------------------ SpecPkg

IdlePkg == pk_result = NoResult
IdleBob == var_libdir = NoResult /\ var_includedir = NoResult /\ BOB = NoResult
IdleLink ==
  /\ linker_so = <<>> /\ linker_is_smart = "None" /\ dll_libraries = "absent"
  /\ tmpfiles = {} /\ created = 0 /\ probes = 0 /\ builds = 0
  /\ probe_cmd = <<>> /\ handed_so = <<>> /\ linker_so0 = <<>>
IdleExt ==
  /\ DESTDIR = <<>> /\ fs = {} /\ platform = "Linux" /\ ext_name = ""
  /\ pc_dict = NoResult /\ ext_result = NoResult
IdleFilters == scope = <<>> /\ todo = {} /\ FILTERS = <<>>

InitPkg ==
  /\ pc = "pkg_call"
  /\ py3 \in BOOLEAN
  /\ proc_output \in SeqsUpTo(PkgBytes, MaxOutLen)
  /\ proc_returncode \in ExitStatuses
  /\ pk_result = NoResult
  /\ IdleBob /\ IdleLink /\ IdleExt /\ IdleFilters

Pkgconfig ==
  /\ pc = "pkg_call"
  /\ pk_result' = pkgconfig(proc_output, proc_returncode, py3)
  /\ pc' = "pkg_done"
  /\ UNCHANGED <<procvars, bobvars, linkvars, extvars, filtervars>>

NextPkg == Pkgconfig

SpecPkg == InitPkg /\ [][NextPkg]_vars

\* ------------------------------------------------------------------ claims on pkgconfig

Buckets == {"include_dirs", "library_dirs", "libraries", "extra_compile_args"}

\* The provider output as the text pkgconfig can go on with.
IsText == ~py3 \/ decodable(proc_output)
Text == astext(proc_output)

\* <<i, j>> is a token of s: a maximal run of non-whitespace characters.
IsRun(s, i, j) ==
  /\ i <= j
  /\ \A k \in i..j : ~isspace(s[k])
  /\ (i = 1 \/ isspace(s[i - 1]))
  /\ (j = Len(s) \/ isspace(s[j + 1]))

Runs(s) == {r \in (1..Len(s)) \X (1..Len(s)) : IsRun(s, r[1], r[2])}

Flagged(s, r, letter) == r[2] > r[1] /\ s[r[1]] = "-" /\ s[r[1] + 1] = letter

RefBucket(s, r) ==
  CASE Flagged(s, r, "I") -> "include_dirs"
    [] Flagged(s, r, "L") -> "library_dirs"
    [] Flagged(s, r, "l") -> "libraries"
    [] OTHER -> "extra_compile_args"

RefValue(s, r) ==
  IF RefBucket(s, r) = "extra_compile_args"
    THEN SubSeq(s, r[1], r[2])
    ELSE SubSeq(s, r[1] + 2, r[2])

RunsOf(s, b) == {r \in Runs(s) : RefBucket(s, r) = b}

\* Where the value v first occurs among the tokens of bucket b.
FirstAt(s, b, v) ==
  CHOOSE i \in {r[1] : r \in {q \in RunsOf(s, b) : RefValue(s, q) = v}} :
    \A r \in RunsOf(s, b) : RefValue(s, r) = v => i <= r[1]

BucketMatches(s, b, got) ==
  /\ {got[i] : i \in DOMAIN got} = {RefValue(s, r) : r \in RunsOf(s, b)}
  /\ \A i, j \in DOMAIN got :
       i < j => got[i] # got[j] /\ FirstAt(s, b, got[i]) < FirstAt(s, b, got[j])

Str(t) == [type |-> "str", v |-> t]
NoneValue == [type |-> "NoneType", v |-> <<>>]
ReturnValue(x) == [kind |-> "return", type |-> x.type, value |-> x.v]

\* What the provider answered to one query.
Answer(returncode, output) == [returncode |-> returncode, output |-> output]

\* bob_variables.get_var(name), on the provider's answer for that variable.
get_var(answer, p3) ==
  LET var == strip(answer.output, WhitespaceBytes)
  IN  IF needs_decode(p3) /\ ~decodable(var)
        THEN Raise("UnicodeDecodeError", <<>>)
      ELSE IF failed(answer.returncode) THEN ReturnValue(NoneValue)
      ELSE ReturnValue(Str(astext(var)))

\* kw['version'] = output if proc.returncode == 0 else None
version_of(output, returncode) ==
  IF returncode = 0 THEN Str(output) ELSE NoneValue

\* bob_variables(), on the provider's answers to --modversion and to the two
\* --variable queries.
bob_variables(output, returncode, libdir, includedir, p3) ==
  LET out == strip(output, WhitespaceBytes)
      version == version_of(astext(out), returncode)
      l == get_var(libdir, p3)
      i == get_var(includedir, p3)
  IN  IF needs_decode(p3) /\ ~decodable(out)
        THEN Raise("UnicodeDecodeError", <<>>)
      ELSE IF version.type = "NoneType"
        THEN Raise("RuntimeError", <<astext(out)>>)
      ELSE IF l.kind = "raise" THEN l
      ELSE IF i.kind = "raise" THEN i
      ELSE [kind |-> "return", type |-> "dict",
            value |-> [version |-> version,
                       base_libdir |-> [type |-> l.type, v |-> l.value],
                       base_includedir |-> [type |-> i.type, v |-> i.value]]]

BobBytes == {49, 46, 32, 255}

VarAnswers ==
  { Answer(0, encode(<<"/", "u", "\n">>)), Answer(1, <<>>), Answer(0, <<255>>) }

InitBob ==
  /\ pc = "bob_call"
  /\ py3 \in BOOLEAN
  /\ proc_output \in SeqsUpTo(BobBytes, MaxVerLen)
  /\ proc_returncode \in ExitStatuses
  /\ var_libdir \in VarAnswers
  /\ var_includedir \in VarAnswers
  /\ BOB = NoResult
  /\ IdlePkg /\ IdleLink /\ IdleExt /\ IdleFilters

BobVariables ==
  /\ pc = "bob_call"
  /\ BOB' = bob_variables(proc_output, proc_returncode, var_libdir,
                          var_includedir, py3)
  /\ pc' = "bob_done"
  /\ UNCHANGED <<procvars, pkgvars, var_libdir, var_includedir, linkvars,
                 extvars, filtervars>>

NextBob == BobVariables

SpecBob == InitBob /\ [][NextBob]_vars

\* C8: a record returned by bob_variables has a non-empty version string,
\* and whenever the provider reports no version (non-zero exit status, or
\* nothing but whitespace on its output) bob_variables raises and produces
\* no record.
C8_VersionNeverEmpty ==
  pc = "bob_done" =>
    /\ BOB.kind = "return" =>
         BOB.value.version.type = "str" /\ BOB.value.version.v # <<>>
    /\ (proc_returncode # 0 \/ strip(proc_output, WhitespaceBytes) = <<>>) =>
         BOB.kind = "raise"

\* ------------------------------------------------------------------ build_ext

\* '-Wl,--no-as-needed'
NoAsNeeded ==
  <<"-", "W", "l", ",", "-", "-", "n", "o", "-", "a", "s", "-", "n", "e", "e",
    "d", "e", "d">>

Least(S) == CHOOSE x \in S : \A y \in S : x <= y

\* str.find(sub): the lowest index (from 0) where sub occurs, -1 when none.
find(s, sub) ==
  LET hits == {i \in 0..(Len(s) - Len(sub)) : SubSeq(s, i + 1, i + Len(sub)) = sub}
  IN  IF hits = {} THEN -1 ELSE Least(hits)

ld_ok_any(opt) == TRUE

\* build_extension.ld_ok(opt): a go for the linker unless opt starts with -L.
ld_ok(opt) == IF find(opt, <<"-", "L">>) = 0 THEN FALSE ELSE TRUE

\* [k for k in seq if ok(k)]
RECURSIVE filter_ld(_)
filter_ld(seq) ==
  IF seq = <<>> THEN <<>>
  ELSE (IF ld_ok(Head(seq)) THEN <<Head(seq)>> ELSE <<>>) \o filter_ld(Tail(seq))

must_probe_always(smart) == TRUE

\* if self.linker_is_smart is None
must_probe(smart) == smart = "None"

\* What launching the linker on the trivial link can do: fail to launch
\* (subprocess.Popen raises OSError), or run to an exit status, printing some
\* output and leaving or (after a failure) removing the file at the output
\* name.
LinkOutcomes ==
  { o \in [launched : BOOLEAN, returncode : ExitStatuses,
           output : {<<>>, <<255>>}, leaves_file : BOOLEAN] :
      /\ (~o.launched => o.returncode = 1 /\ o.output = <<>> /\ ~o.leaves_file)
      /\ (o.launched /\ o.returncode = 0 => o.leaves_file) }

\* The probe is left by an exception: Popen raised, or the captured output
\* could not be decoded.
probe_raises(outcome, p3) ==
  ~outcome.launched \/ (needs_decode(p3) /\ ~decodable(outcome.output))

\* cmd = linker + ['-Wl,--no-as-needed', '-lm', '-o', name]
probe_command(linker) ==
  linker \o <<NoAsNeeded, <<"-", "l", "m">>, <<"-", "o">>, <<"t", "m", "p">>>>

\* True if proc.returncode == 0 else False
verdict(outcome) == IF outcome.returncode = 0 THEN "True" ELSE "False"

\* build_ext.build_extension(ext), up to and including the hand-off to
\* build_ext_base.build_extension; outcome is what the linker does if probed.
BuildExtension(outcome) ==
  /\ pc = "building"
  /\ builds < MaxBuilds
  /\ LET so == filter_ld(linker_so)
         name == created + 1
     IN  IF must_probe(linker_is_smart)
           THEN /\ created' = name
                /\ probes' = probes + 1
                /\ probe_cmd' = probe_command(so)
                /\ IF probe_raises(outcome, py3)
                     THEN \* the exception leaves build_extension
                          /\ tmpfiles' = tmpfiles \cup {name}
                          /\ linker_so' = so
                          /\ pc' = "aborted"
                          /\ UNCHANGED <<linker_is_smart, dll_libraries, builds,
                                         handed_so>>
                     ELSE /\ tmpfiles' =
                               (IF outcome.leaves_file
                                  THEN (tmpfiles \cup {name}) \ {name}
                                  ELSE tmpfiles)
                          /\ linker_is_smart' = verdict(outcome)
                          /\ linker_so' =
                               (IF verdict(outcome) = "True"
                                  THEN so \o <<NoAsNeeded>>
                                  ELSE so)
                          /\ dll_libraries' =
                               (IF dll_libraries = "None" THEN "list"
                                                          ELSE dll_libraries)
                          /\ builds' = builds + 1
                          /\ handed_so' = linker_so'
                          /\ pc' = "building"
           ELSE /\ linker_so' = so
                /\ dll_libraries' =
                     (IF dll_libraries = "None" THEN "list" ELSE dll_libraries)
                /\ builds' = builds + 1
                /\ handed_so' = linker_so'
                /\ pc' = "building"
                /\ UNCHANGED <<linker_is_smart, tmpfiles, created, probes,
                               probe_cmd>>
  /\ UNCHANGED <<procvars, pkgvars, bobvars, linker_so0, extvars, filtervars>>

LinkerTokens ==
  { <<"-", "L", "a">>, <<"-", "L">>, <<"a", "-", "L">>, <<"-", "s">>, NoAsNeeded }

InitLink ==
  /\ pc = "building"
  /\ py3 \in BOOLEAN /\ proc_output = <<>> /\ proc_returncode = 0
  /\ linker_so0 \in SeqsUpTo(LinkerTokens, MaxLinkerLen)
  /\ linker_so = linker_so0
  /\ linker_is_smart = "None"
  /\ dll_libraries \in {"absent", "None", "list"}
  /\ tmpfiles = {} /\ created = 0 /\ probes = 0 /\ builds = 0
  /\ probe_cmd = <<>> /\ handed_so = <<>>
  /\ IdlePkg /\ IdleBob /\ IdleExt /\ IdleFilters

NextLink == \E outcome \in LinkOutcomes : BuildExtension(outcome)

SpecLink == InitLink /\ [][NextLink]_vars

Count(seq, x) == Cardinality({i \in DOMAIN seq : seq[i] = x})

StartsWithL(token) == Len(token) >= 2 /\ token[1] = "-" /\ token[2] = "L"

\* C3: the trivial link attempt runs at most once over all build_extension
\* calls: the first call settles linker_is_smart, later calls neither launch
\* the linker nor create a temporary file, and the verdict never changes.
C3_ProbedOnce ==
  /\ [](probes <= 1 /\ created <= 1)
  /\ [](builds >= 1 => linker_is_smart \in {"True", "False"})
  /\ [][linker_is_smart # "None" =>
          /\ linker_is_smart' = linker_is_smart
          /\ probes' = probes
          /\ created' = created]_vars

\* A second build_extension call made with the verdict already cached.
C3_Witness == builds >= 2 /\ probes = 1 /\ linker_is_smart = "True"

\* C4: no temporary file of the probe exists once the probe has been left,
\* whether the link succeeded, failed, or the linker could not be launched.
C4_TempFileRemoved == tmpfiles = {}

\* C10: at every hand-off linker_so holds no token starting with -L (nor
\* did the linker invocation the probe launched), and holds
\* -Wl,--no-as-needed once more than the initial invocation did if the
\* verdict is capable and exactly as often if it is incapable.
C10_HandedLinker ==
  builds >= 1 =>
    /\ \A i \in DOMAIN handed_so : ~StartsWithL(handed_so[i])
    /\ probes = 1 /\ \A i \in DOMAIN probe_cmd : ~StartsWithL(probe_cmd[i])
    /\ linker_is_smart \in {"True", "False"}
    /\ Count(handed_so, NoAsNeeded) =
         Count(linker_so0, NoAsNeeded) + (IF linker_is_smart = "True" THEN 1 ELSE 0)
    /\ handed_so = linker_so

\* A third hand-off with a capable linker whose initial invocation carried a
\* library search path.
C10_Witness ==
  /\ builds = 3 /\ linker_is_smart = "True"
  /\ \E i \in DOMAIN linker_so0 : StartsWithL(linker_so0[i])
  /\ Count(handed_so, NoAsNeeded) = 1

\* ------------------------------------------------------------------ setup_extension

\* os.sep
sep == "/"

\* os.path.join(a, b) of posixpath
os_path_join(a, b) ==
  IF b # <<>> /\ Head(b) = sep THEN b
  ELSE IF a = <<>> \/ a[Len(a)] = sep THEN a \o b
  ELSE a \o <<sep>> \o b

\* os.path.exists(path)
os_path_exists(path, files) == path \in files

existing_unfiltered(seq, files) == seq

\* [k for k in seq if os.path.exists(k)]
RECURSIVE existing(_, _)
existing(seq, files) ==
  IF seq = <<>> THEN <<>>
  ELSE (IF os_path_exists(Head(seq), files) THEN <<Head(seq)>> ELSE <<>>)
         \o existing(Tail(seq), files)

caged_appended(seq, path) == Append(seq, path)

\* seq.insert(0, path)
caged_inserted(seq, path) == <<path>> \o seq

\* numpy.get_include()
numpy_get_include == <<"/", "n">>

\* sources: ['empty.c'] when platform.system() contains CYGWIN
sources_for(system) == IF system = "CYGWIN_NT-10.0" THEN <<"empty.c">> ELSE <<>>

\* setup_extension(ext_name, pc_file), given what pkgconfig returned for the
\* versioned package name.
setup_extension(name, pkg, bob, destdir, files, system) ==
  IF pkg.kind = "raise" THEN pkg
  ELSE
    LET found_libs == existing(get(pkg.value, "library_dirs"), files)
        found_incs == existing(get(pkg.value, "include_dirs"), files)
        caged == Len(destdir) # 0
    IN  IF caged /\ bob.base_libdir.type = "NoneType"
          THEN Raise("AttributeError", <<"lstrip">>)
        ELSE IF caged /\ bob.base_includedir.type = "NoneType"
          THEN Raise("AttributeError", <<"strip">>)
        ELSE IF "libraries" \notin DOMAIN pkg.value
          THEN Raise("KeyError", <<"libraries">>)
        ELSE
          LET library_dirs ==
                IF caged
                  THEN caged_inserted(found_libs,
                         os_path_join(destdir, lstrip(bob.base_libdir.v, {sep})))
                  ELSE found_libs
              include_dirs ==
                IF caged
                  THEN caged_inserted(found_incs,
                         os_path_join(destdir, strip(bob.base_includedir.v, {sep})))
                  ELSE found_incs
          IN  [kind |-> "return", type |-> "Extension",
               value |-> [name |-> name,
                          sources |-> sources_for(system),
                          language |-> "c++",
                          include_dirs |-> include_dirs \o <<numpy_get_include>>,
                          library_dirs |-> library_dirs,
                          runtime_library_dirs |-> library_dirs,
                          libraries |-> pkg.value["libraries"]]]

RECURSIVE join_tokens(_)
join_tokens(tokens) ==
  IF tokens = <<>> THEN <<>>
  ELSE IF Len(tokens) = 1 THEN Head(tokens)
  ELSE Head(tokens) \o <<" ">> \o join_tokens(Tail(tokens))

ExtTokens ==
  { <<"-", "L", "/", "a">>, <<"-", "L", "/", "b">>, <<"-", "I", "/", "a">>,
    <<"-", "l", "x">> }

FsPool == { <<"/", "a">>, <<"/", "b">>, numpy_get_include, <<"/", "s", "/", "u">> }

Roots == { <<>>, <<"/", "s">>, <<"/", "s", "/">> }

LibdirAnswers == { Answer(0, encode(<<"/", "/", "u", "\n">>)), Answer(1, <<>>) }
IncludedirAnswers == { Answer(0, encode(<<"/", "i", "/", "\n">>)), Answer(1, <<>>) }

ExtNames == {"bob.core._core", "bob.io._io"}
Systems == {"Linux", "CYGWIN_NT-10.0"}

InitExt ==
  /\ pc = "ext_call"
  /\ py3 = TRUE
  /\ proc_output \in {encode(join_tokens(t)) : t \in SeqsUpTo(ExtTokens, MaxTokens)}
  /\ proc_returncode \in ExitStatuses
  /\ var_libdir \in LibdirAnswers
  /\ var_includedir \in IncludedirAnswers
  /\ BOB = bob_variables(<<49>>, 0, var_libdir, var_includedir, py3)
  /\ DESTDIR \in Roots
  /\ fs \in SUBSET FsPool
  /\ platform = "Linux" /\ ext_name = ""
  /\ pc_dict = NoResult /\ ext_result = NoResult
  /\ IdlePkg /\ IdleLink /\ IdleFilters

SetupExtension(name, system) ==
  /\ pc = "ext_call"
  /\ ext_name' = name
  /\ platform' = system
  /\ pc_dict' = pkgconfig(proc_output, proc_returncode, py3)
  /\ ext_result' = setup_extension(name, pc_dict', BOB.value, DESTDIR, fs, system)
  /\ pc' = "ext_done"
  /\ UNCHANGED <<procvars, pkgvars, bobvars, linkvars, DESTDIR, fs, filtervars>>

NextExt == \E name \in ExtNames, system \in Systems : SetupExtension(name, system)

SpecExt == InitExt /\ [][NextExt]_vars

Elems(seq) == {seq[i] : i \in DOMAIN seq}

\* C5: setup_extension for a package whose description yields no library
\* fails with an error that identifies ext_name, and returns no descriptor.
C5_UnresolvableNamesExtension ==
  (pc = "ext_done" /\ pc_dict.kind = "return"
     /\ get(pc_dict.value, "libraries") = <<>>) =>
    /\ ext_result.kind = "raise"
    /\ ext_name \in Elems(ext_result.args)

\* The path os.path.join gives for a non-empty root and the base directory
\* with its leading separators removed.
IsCagedPath(path, root, base) ==
  \E k \in 0..Len(base) :
    /\ \A i \in 1..k : base[i] = sep
    /\ k < Len(base) => base[k + 1] # sep
    /\ path = (IF root[Len(root)] = sep THEN root ELSE root \o <<sep>>)
                \o SubSeq(base, k + 1, Len(base))

\* seq restricted to the paths of files, order kept.
IsExistingOf(got, seq, files) ==
  got = SelectSeq(seq, LAMBDA p : p \in files)

\* C6: with a non-empty DESTDIR the descriptor's library_dirs is the caged
\* path (DESTDIR joined with base_libdir less its leading separators)
\* followed by the discovered library dirs that exist, in discovered order;
\* with an empty DESTDIR it is just the latter.
C6_CagedLibraryDirs ==
  (pc = "ext_done" /\ ext_result.kind = "return") =>
    LET dirs == ext_result.value.library_dirs
        discovered == get(pc_dict.value, "library_dirs")
    IN  IF DESTDIR # <<>>
          THEN /\ dirs # <<>>
               /\ IsCagedPath(Head(dirs), DESTDIR, BOB.value.base_libdir.v)
               /\ IsExistingOf(Tail(dirs), discovered, fs)
          ELSE IsExistingOf(dirs, discovered, fs)

\* A caged descriptor built from two discovered library dirs of which the
\* first does not exist.
C6_Witness ==
  /\ pc = "ext_done" /\ ext_result.kind = "return" /\ DESTDIR # <<>>
  /\ Len(get(pc_dict.value, "library_dirs")) = 2
  /\ Len(ext_result.value.library_dirs) = 2
  /\ pc_dict.value["library_dirs"][1] \notin fs

\* C9 as stated: for every DESTDIR, every entry of include_dirs and of
\* library_dirs of a returned descriptor exists on the filesystem.
C9_AllEntriesExist ==
  (pc = "ext_done" /\ ext_result.kind = "return") =>
    /\ Elems(ext_result.value.include_dirs) \subseteq fs
    /\ Elems(ext_result.value.library_dirs) \subseteq fs
    /\ Elems(ext_result.value.runtime_library_dirs) \subseteq fs

\* seq without its first n and its last m entries.
Trim(seq, n, m) == SubSeq(seq, n + 1, Len(seq) - m)

\* C9 amended: every discovered entry of include_dirs and library_dirs of a
\* returned descriptor exists on the filesystem, nonexistent discovered
\* paths being dropped without an error; the caged path put first under a
\* non-empty DESTDIR and the numpy include directory put last in
\* include_dirs are not checked for existence.
C9_DiscoveredEntriesExist ==
  (pc = "ext_done" /\ pc_dict.kind = "return"
     /\ "libraries" \in DOMAIN pc_dict.value
     /\ (DESTDIR # <<>> => /\ BOB.value.base_libdir.type = "str"
                           /\ BOB.value.base_includedir.type = "str")) =>
    /\ ext_result.kind = "return"
    /\ LET n == IF DESTDIR # <<>> THEN 1 ELSE 0
       IN  /\ Elems(Trim(ext_result.value.include_dirs, n, 1)) \subseteq fs
           /\ Elems(Trim(ext_result.value.library_dirs, n, 0)) \subseteq fs
           /\ ext_result.value.runtime_library_dirs = ext_result.value.library_dirs

\* A descriptor returned for a package with one discovered library dir that
\* exists and one that does not.
C9_Witness ==
  /\ pc = "ext_done" /\ ext_result.kind = "return"
  /\ \E p \in Elems(get(pc_dict.value, "library_dirs")) : p \notin fs
  /\ \E p \in Elems(get(pc_dict.value, "library_dirs")) : p \in fs

\* ------------------------------------------------------------------ filters.py

\* The classes a binding of the module can hold, each with its base class.
Classes == {"object", "Filter", "Crop", "Sub", "Other"}

base_of(c) ==
  CASE c = "Filter" -> "object"
    [] c = "Crop" -> "Filter"
    [] c = "Sub" -> "Crop"
    [] c = "Other" -> "object"
    [] OTHER -> "object"

\* The values a binding of the module can hold: a class, or something that
\* is no type (a module, the list FILTERS itself).
Values == Classes \cup {"torch"}

\* isinstance(v, type)
isinstance_type(v) == v \in Classes

\* issubclass(c, b)
RECURSIVE issubclass(_, _)
issubclass(c, b) ==
  \/ c = b
  \/ c # "object" /\ issubclass(base_of(c), b)

is_filter_or_base(v) == isinstance_type(v) /\ issubclass(v, "Filter")

\* isinstance(v, type) and issubclass(v, Filter) and v != Filter
is_filter(v) == isinstance_type(v) /\ issubclass(v, "Filter") /\ v # "Filter"

\* Key 0 is the name Filter, bound to the base class; keys 1.. are the other
\* names bound in the module.
InitFilters ==
  /\ pc = "discovering"
  /\ \E names \in SUBSET (1..MaxNames) :
       scope \in {f \in [names \cup {0} -> Values] : f[0] = "Filter"}
  /\ todo = DOMAIN scope
  /\ FILTERS = <<>>
  /\ py3 = FALSE /\ proc_output = <<>> /\ proc_returncode = 0
  /\ IdlePkg /\ IdleBob /\ IdleLink /\ IdleExt

\* One iteration of the loop over __locals__copy.iteritems(), at key k; the
\* order of a dict's items is not fixed.
Discover(k) ==
  /\ pc = "discovering"
  /\ k \in todo
  /\ FILTERS' = (IF is_filter(scope[k]) THEN Append(FILTERS, scope[k]) ELSE FILTERS)
  /\ todo' = todo \ {k}
  /\ pc' = (IF todo' = {} THEN "discovered" ELSE "discovering")
  /\ UNCHANGED <<procvars, pkgvars, bobvars, linkvars, extvars, scope>>

NextFilters == \E k \in 0..MaxNames : Discover(k)

SpecFilters == InitFilters /\ [][NextFilters]_vars

Bound == {scope[k] : k \in DOMAIN scope}

\* C7: FILTERS holds, as a set, exactly the classes bound in the scope that
\* descend from Filter and are not Filter: never Filter itself, never a
\* binding that is no type or an unrelated class, and nothing when only the
\* base is bound.
C7_DiscoveredFilters ==
  /\ "Filter" \notin Elems(FILTERS)
  /\ Elems(FILTERS) \subseteq Bound \cap {"Crop", "Sub"}
  /\ pc = "discovered" => Elems(FILTERS) = Bound \cap {"Crop", "Sub"}
  /\ (pc = "discovered" /\ Bound \subseteq {"Filter", "torch"}) => FILTERS = <<>>

\* A finished scan of a scope that binds two descendants and, under a second
\* name, the base class.
C7_Witness ==
  /\ pc = "discovered"
  /\ Elems(FILTERS) = {"Crop", "Sub"}
  /\ \E k \in DOMAIN scope : k # 0 /\ scope[k] = "Filter"

====
